---- MODULE Spec2Model ----
(***************************************************************************)
(* The hours ledger of src/src/App.tsx: the entries list (one DayEntry per *)
(* logged date), its three mutating handlers (handleSubmit, quickAdd /     *)
(* quickAddForDate, deleteEntry), the validation helpers they call and the *)
(* in-place sort of the Recent Entries render; its reads (totalHours,      *)
(* getCurrentMonthHours, getHoursBetweenDates, getDaysInMonth), the month  *)
(* navigation and the date-range selection of the calendar; the snapshot   *)
(* of the entries kept in localStorage; the two image exports, savePNG and *)
(* exportAndShare, which suspend in toPng.                                 *)
(*                                                                         *)
(* Representation.                                                         *)
(*   - A date string 'YYYY-MM-DD' is the number of days from 2025-01-01    *)
(*     (2024-12-31 is -1, 2025-12-31 is 364, 2026-01-01 is 365).           *)
(*   - A Date object is an instant: the number of hours from               *)
(*     2025-01-01T00:00:00.000Z.  The last instant of a day stands for     *)
(*     23:59:59.999 of that day.                                           *)
(*   - An hours value (a JS number) is a fixed-point number of hundredths  *)
(*     of an hour; a JS value that may be NaN or undefined is a record     *)
(*     [tag, val].                                                         *)
(*   - The local time of the environment is UTC plus a fixed offset of     *)
(*     whole hours (no daylight-saving change during a run).               *)
(*   - The text kept in localStorage is a tree of tagged records: the      *)
(*     value JSON.stringify wrote, or a text that is no JSON at all.       *)
(***************************************************************************)
EXTENDS Integers, Sequences, FiniteSets, TLC

VARIABLES
    entries,    \* the entries state: a sequence of [date, hours]
    now,        \* the wall clock read by new Date()
    last,       \* what the last handler did: its arguments and its signals
    calls,      \* number of quickAdd(0.5) calls made from the baseline
    storage,    \* localStorage.getItem('codingHours2025')
    status,     \* "unmounted", "running", "crashed" (a render threw), or
                \* "left" (the window went to another address)
    currentMonth,   \* the currentMonth state: a Date
    dateRange,  \* the dateRange state: [start, end], each a date or null
    tz,         \* local time minus UTC, in hours
    exports     \* the exports suspended in toPng, in the order they began

vars == <<entries, now, last, calls, storage, status, currentMonth,
          dateRange, tz, exports>>

----------------------------------------------------------------------------
(* Numbers *)

\* hundredths of an hour per hour (DayEntry.hours is a JS number)
Scale == 100

\* the daily cap of validateAndClampHours
MaxHours == 24

\* hours per day: the instants of one UTC day
DayLen == 24

\* setUTCHours(12, 0, 0, 0)
Noon == 12

\* '2025-01-01' and '2025-12-31' as day numbers
StartDay == 0
EndDay == 364

Min(a, b) == IF a <= b THEN a ELSE b
Max(a, b) == IF a >= b THEN a ELSE b

Num(v) == [tag |-> "num", val |-> v]
NaN == [tag |-> "NaN", val |-> 0]
Undefined == [tag |-> "undefined", val |-> 0]

\* isNaN(x) for the result of parseFloat
IsNaN(x) == x.tag # "num"

\* JS truthiness of an optional number: undefined, NaN and 0 are falsy
Truthy(x) == x.tag = "num" /\ x.val # 0

\* Math.round(x * 2) / 2 : Math.round rounds halves towards +infinity
RoundHalf(h) == ((2 * h + Scale \div 2) \div Scale) * (Scale \div 2)

----------------------------------------------------------------------------
(* Dates *)

\* d.setUTCHours(h, ...) keeps the UTC day and sets the time of day
SetUTCHours(t, h) == (t \div DayLen) * DayLen + h

\* the last instant of t's UTC day: setUTCHours(23, 59, 59, 999)
EndOfUTCDay(t) == SetUTCHours(t, DayLen - 1)

\* new Date(str) and new Date(str + 'T00:00:00.000Z') for a date-only string
ParseDate(str) == str * DayLen

\* d.toISOString().split('T')[0]
ISODate(t) == t \div DayLen

formatDate(t) == ISODate(SetUTCHours(t, Noon))

\* isValidDate without the comparison against today
isValidDateNoToday(date, clock) ==
    LET dateToCheck == SetUTCHours(date, Noon)
        startDate == ParseDate(StartDay) + Noon
        endDate == ParseDate(EndDay) + (DayLen - 1)
    IN  dateToCheck >= startDate /\ dateToCheck <= endDate

\* isValidDate without the comparison against endDate
isValidDateNoEnd(date, clock) ==
    LET dateToCheck == SetUTCHours(date, Noon)
        today == EndOfUTCDay(clock)
        startDate == ParseDate(StartDay) + Noon
    IN  dateToCheck >= startDate /\ dateToCheck <= today

\* (every date the handlers pass is a parsed 'YYYY-MM-DD' string, so the
\* Invalid Date test of line 59 never holds)
isValidDate(date, clock) ==
    LET dateToCheck == SetUTCHours(date, Noon)
        today == EndOfUTCDay(clock)
        startDate == ParseDate(StartDay) + Noon
        endDate == ParseDate(EndDay) + (DayLen - 1)
    IN  dateToCheck >= startDate /\ dateToCheck <= endDate /\ dateToCheck <= today

----------------------------------------------------------------------------
(* The calendar: Date.UTC and the getters of the local time zone *)

\* the year of StartDay, '2025-01-01'
StartYear == 2025

\* the year of the ECMAScript epoch, whose first day is a Thursday (4)
EpochYear == 1970
EpochWeekday == 4

MonthsPerYear == 12
DaysPerWeek == 7

IsLeap(y) == y % 4 = 0 /\ (y % 100 # 0 \/ y % 400 = 0)

LeapsBefore(y) == (y - 1) \div 4 - (y - 1) \div 100 + (y - 1) \div 400

\* the day number of January 1st of year y
YearStart(y) ==
    365 * (y - StartYear) + LeapsBefore(y) - LeapsBefore(StartYear)

\* months are numbered from 0 (January) as in JS
MonthLength(y, m) ==
    IF m = 1 THEN (IF IsLeap(y) THEN 29 ELSE 28)
    ELSE IF m \in {3, 5, 8, 10} THEN 30 ELSE 31

DaysBeforeMonth(y, m) ==
    <<0, 31, 59, 90, 120, 151, 181, 212, 243, 273, 304, 334>>[m + 1]
    + (IF m >= 2 /\ IsLeap(y) THEN 1 ELSE 0)

\* Date.UTC(year, month, day, hour): a month outside 0..11 and a day outside
\* the month carry into the neighbouring years and months
DateUTC(year, month, day, hour) ==
    LET y == year + (month \div MonthsPerYear)
        m == month % MonthsPerYear
    IN  (YearStart(y) + DaysBeforeMonth(y, m) + day - 1) * DayLen + hour

\* the years the calendar is followed through
Years == (StartYear - 2)..(StartYear + 2)

YearOfDay(d) == CHOOSE y \in Years : YearStart(y) <= d /\ d < YearStart(y + 1)

MonthOfDay(d) ==
    LET y == YearOfDay(d)
        n == d - YearStart(y)
    IN  CHOOSE m \in 0..(MonthsPerYear - 1) :
            /\ DaysBeforeMonth(y, m) <= n
            /\ n < DaysBeforeMonth(y, m) + MonthLength(y, m)

DateOfDay(d) ==
    LET y == YearOfDay(d)
    IN  d - YearStart(y) - DaysBeforeMonth(y, MonthOfDay(d)) + 1

\* the local calendar day of instant t where local time is UTC + z hours
LocalDay(t, z) == (t + z) \div DayLen

\* date.getFullYear(), getMonth(), getDate(), getDay(): local getters
getFullYear(t, z) == YearOfDay(LocalDay(t, z))
getMonth(t, z) == MonthOfDay(LocalDay(t, z))
getDate(t, z) == DateOfDay(LocalDay(t, z))
getDay(t, z) == (LocalDay(t, z) - YearStart(EpochYear) + EpochWeekday) % DaysPerWeek

\* new Date(year, month, day): local midnight
NewLocalDate(year, month, day, z) == DateUTC(year, month, day, 0) - z

\* d.setMonth(m): the local year, day of month and time of day are kept
setMonth(t, z, m) ==
    DateUTC(getFullYear(t, z), m, getDate(t, z), (t + z) % DayLen) - z

----------------------------------------------------------------------------
(* Hours *)

\* validateAndClampHours with Math.floor for Math.round
validateAndClampFloor(hours) ==
    Min(Max(0, ((2 * hours) \div Scale) * (Scale \div 2)), MaxHours * Scale)

\* validateAndClampHours rounding to whole hours: Math.round(hours)
validateAndClampWhole(hours) ==
    Min(Max(0, ((2 * hours + Scale) \div (2 * Scale)) * Scale),
        MaxHours * Scale)

validateAndClampHours(hours) ==
    Min(Max(0, RoundHalf(hours)), MaxHours * Scale)

\* entries.findIndex(entry => entry.date === date), 0 for -1
RECURSIVE FindFrom(_, _, _)
FindFrom(es, date, i) ==
    IF i > Len(es) THEN 0
    ELSE IF es[i].date = date THEN i
    ELSE FindFrom(es, date, i + 1)

findIndex(es, date) == FindFrom(es, date, 1)

\* entries.find(entry => entry.date === date)?.hours || 0
getHoursForDate(es, date) ==
    LET i == findIndex(es, date)
    IN  IF i = 0 THEN 0 ELSE es[i].hours

\* the Recent Entries render: entries.sort((a, b) => b.date - a.date) sorts the
\* state array in place, latest date first, equal dates kept in order
RECURSIVE InsertByRecency(_, _)
InsertByRecency(sorted, e) ==
    IF sorted = <<>> THEN <<e>>
    ELSE IF Head(sorted).date >= e.date
         THEN <<Head(sorted)>> \o InsertByRecency(Tail(sorted), e)
         ELSE <<e>> \o sorted

RECURSIVE SortFrom(_, _, _)
SortFrom(es, i, acc) ==
    IF i > Len(es) THEN acc
    ELSE SortFrom(es, i + 1, InsertByRecency(acc, es[i]))

renderSort(es) == SortFrom(es, 1, <<>>)

----------------------------------------------------------------------------
(* The reads of the ledger *)

\* a date string or null
NoDate == [tag |-> "null", val |-> 0]
DateStr(d) == [tag |-> "str", val |-> d]

\* a test that takes null for a date
HasDateOrNull(x) == TRUE

\* the truthiness of a date string or null (!start, !dateRange.start)
HasDate(x) == x.tag = "str"

ErrRange == "Date range cannot exceed one year"

\* entries.reduce((sum, entry) => sum + entry.hours, 0)
RECURSIVE SumHours(_)
SumHours(es) ==
    IF es = <<>> THEN 0 ELSE Head(es).hours + SumHours(Tail(es))

\* totalHours that skips the first entry of the array
totalHoursFromSecond(es) == IF es = <<>> THEN 0 ELSE SumHours(Tail(es))

totalHours(es) == SumHours(es)

maxRangeDays == 365

\* validateDateRange that counts both endpoints
validateDateRangeInclusive(start, end) ==
    LET diffTime == IF ParseDate(end) >= ParseDate(start)
                    THEN ParseDate(end) - ParseDate(start)
                    ELSE ParseDate(start) - ParseDate(end)
        diffDays == (diffTime + DayLen - 1) \div DayLen
    IN  diffDays + 1 <= maxRangeDays

\* diffTime is Math.abs of the difference of two instants, diffDays its
\* Math.ceil in days
validateDateRange(start, end) ==
    LET startDate == ParseDate(start)
        endDate == ParseDate(end)
        diffTime == IF endDate >= startDate THEN endDate - startDate
                    ELSE startDate - endDate
        diffDays == (diffTime + DayLen - 1) \div DayLen
    IN  diffDays <= maxRangeDays

\* What getHoursBetweenDates returns and what it passes to setError.  The
\* filter compares the date strings as given: start and end are not swapped
getHoursBetweenDates(es, start, end) ==
    IF ~HasDate(start) \/ ~HasDate(end) THEN [total |-> 0, errs |-> <<>>]
    ELSE IF ~validateDateRange(start.val, end.val)
         THEN [total |-> 0, errs |-> <<ErrRange>>]
    ELSE [total |-> SumHours(SelectSeq(es, LAMBDA e :
                        e.date >= start.val /\ e.date <= end.val)),
          errs |-> <<>>]

\* The 'This Month' figure: the entries whose local month index equals that
\* of the displayed month; the year is not compared
getCurrentMonthHours(es, month, z) ==
    LET displayedMonth == getMonth(month, z)
    IN  SumHours(SelectSeq(es, LAMBDA e :
            getMonth(ParseDate(e.date), z) = displayedMonth))

\* the cells of the calendar
GridCells == 42

Cell(t, inMonth) == [date |-> t, isCurrentMonth |-> inMonth]

\* The cells are instants at 12:00 UTC; the year and month of the argument,
\* the number of days (lastDay.getDate()) and the weekday of the 1st
\* (firstDay.getDay()) are read with the local getters.  The k-th cell of
\* the first loop is the one pushed for i = startingDay - k
getDaysInMonth(date, z) ==
    LET year == getFullYear(date, z)
        month == getMonth(date, z)
        firstDay == DateUTC(year, month, 1, Noon)
        lastDay == DateUTC(year, month + 1, 0, Noon)
        daysInMonth == getDate(lastDay, z)
        startingDay == getDay(firstDay, z)
        previousMonth == DateUTC(year, month, 0, Noon)
        daysInPreviousMonth == getDate(previousMonth, z)
        previous == [k \in 1..startingDay |->
            Cell(DateUTC(year, month - 1,
                         daysInPreviousMonth - (startingDay - k), Noon), FALSE)]
        current == [i \in 1..daysInMonth |->
            Cell(DateUTC(year, month, i, Noon), TRUE)]
        remainingDays == GridCells - (Len(previous) + Len(current))
        next == [i \in 1..remainingDays |->
            Cell(DateUTC(year, month + 1, i, Noon), FALSE)]
    IN  previous \o current \o next

\* navigateMonth: setMonth(getMonth() - 1) or setMonth(getMonth() + 1)
navigateMonth(prevMonth, z, direction) ==
    IF direction = "prev"
    THEN setMonth(prevMonth, z, getMonth(prevMonth, z) - 1)
    ELSE setMonth(prevMonth, z, getMonth(prevMonth, z) + 1)

----------------------------------------------------------------------------
(* The snapshot in localStorage *)

\* getItem returned null (no item), or the item is the empty string
NoItem == [kind |-> "none"]
EmptyText == [kind |-> "empty"]

\* a text JSON.parse throws a SyntaxError on
NotJSON == [kind |-> "garbage"]

\* the JSON texts null, {} and 42
JNull == [kind |-> "null"]
JEmptyObject == [kind |-> "object"]
JNumber(h) ==
    [kind |-> "number", neg |-> h < 0,
     int |-> (IF h < 0 THEN -h ELSE h) \div Scale,
     frac |-> (IF h < 0 THEN -h ELSE h) % Scale]

\* a date string in quotes
JString(d) == [kind |-> "string", chars |-> d]

\* {"date":"YYYY-MM-DD","hours":h}
JRecord(e) ==
    [kind |-> "record", date |-> JString(e.date), hours |-> JNumber(e.hours)]

JArray(items) == [kind |-> "array", items |-> items]

\* JSON.stringify that writes the first entry only
JSONstringifyHead(es) ==
    JArray([i \in 1..Min(1, Len(es)) |-> JRecord(es[i])])

\* JSON.stringify(entries): the whole array in one text
JSONstringify(es) == JArray([i \in 1..Len(es) |-> JRecord(es[i])])

\* the number a JSON number text stands for
ParseNumber(j) == (IF j.neg THEN -1 ELSE 1) * (j.int * Scale + j.frac)

\* JSON.parse of an array of records
ParseRecords(items) ==
    [i \in 1..Len(items) |->
        [date |-> items[i].date.chars, hours |-> ParseNumber(items[i].hours)]]

\* The entries initializer and the first render.  saved ? JSON.parse(saved)
\* : [] takes a missing or empty item for no entries; JSON.parse throws on a
\* text that is no JSON; the first render calls entries.reduce, which throws
\* when entries is not an array, and reads entry.hours, which throws on a
\* null element.  Nothing catches either.
initialEntries(saved) ==
    IF saved.kind \in {"none", "empty"} THEN [threw |-> FALSE, entries |-> <<>>]
    ELSE IF saved.kind # "array" THEN [threw |-> TRUE, entries |-> <<>>]
    ELSE IF \E i \in 1..Len(saved.items) : saved.items[i].kind # "record"
         THEN [threw |-> TRUE, entries |-> <<>>]
    ELSE [threw |-> FALSE, entries |-> ParseRecords(saved.items)]

----------------------------------------------------------------------------
(* The messages of setError and the kinds of setAlert *)

ErrInvalidInput == "Please enter a valid number of hours"
ErrHoursRange == "Hours must be between 0 and 24"
ErrDateWindow == "Cannot add hours for future dates or dates outside 2025"
ErrBefore2025 == "Cannot add hours before 2025"
ErrExceedMax == "Cannot exceed 24 hours in a day"
ErrNegative == "Hours cannot be negative"
ErrNoHours == "No hours logged yet to export"
ErrExport == "Failed to export image. Please try again."
ErrSave == "Failed to save image. Please try again."
ErrDownload == "Failed to download image. Please try again."

AlertLogged == "Logged"
AlertRemoved == "Removed"
AlertRemovedAll == "Removed all"
AlertRangeTotal == "You coded"
AlertRangeNone == "No hours logged for the selected date range"
AlertDownloaded == "Image downloaded successfully!"
AlertShared == "PNG downloaded! You can now attach it to your tweet."
NoAlert == "none"

\* What a handler did: the array it passed to setEntries (or the entries it
\* left alone), the messages it passed to setError in order, its setAlert
Outcome(es, errs, alert, wrote) ==
    [entries |-> es, errs |-> errs, alert |-> alert, wrote |-> wrote]

Rejected(es, msg) == Outcome(es, <<msg>>, NoAlert, FALSE)

Ignored(es) == Outcome(es, <<>>, NoAlert, FALSE)

----------------------------------------------------------------------------
(* The handlers, as functions of the state they read.  Nothing inside their *)
(* try blocks throws, so the catch branches ('Failed to save entry', 'Failed *)
(* to delete entry') are never taken.                                       *)

\* upsert that appends without looking for the date
upsertAppend(es, date, h) == Append(es, [date |-> date, hours |-> h])

\* upsert that keeps no record of 0 hours
upsertDropZero(es, date, h) ==
    IF h = 0 THEN SelectSeq(es, LAMBDA e : e.date # date)
    ELSE IF findIndex(es, date) # 0
         THEN [es EXCEPT ![findIndex(es, date)].hours = h]
         ELSE Append(es, [date |-> date, hours |-> h])

\* findIndex, then replace the hours at that index or append a new entry
upsert(es, date, h) ==
    LET existingEntryIndex == findIndex(es, date)
    IN  IF existingEntryIndex # 0
        THEN [es EXCEPT ![existingEntryIndex].hours = h]
        ELSE Append(es, [date |-> date, hours |-> h])

\* hoursNum is parseFloat(hours) of the form's hours field
handleSubmit(es, clock, selectedDate, hoursNum) ==
    LET validatedHours == validateAndClampHours(hoursNum.val)
        selectedDateObj == ParseDate(selectedDate)
    IN  IF IsNaN(hoursNum) THEN Rejected(es, ErrInvalidInput)
        ELSE IF validatedHours = 0 /\ hoursNum.val # 0
             THEN Rejected(es, ErrHoursRange)
        ELSE IF ~isValidDate(selectedDateObj, clock)
             THEN Rejected(es, ErrDateWindow)
        ELSE Outcome(upsert(es, selectedDate, validatedHours), <<>>,
                     AlertLogged, TRUE)

\* addToDate that writes the clamped hours before it reports the no-op
addToDateWriteOnReject(es, dateStr, amount) ==
    LET currentHours == getHoursForDate(es, dateStr)
        newHours == validateAndClampHours(currentHours + amount)
        written == upsert(es, dateStr, newHours)
    IN  IF newHours = currentHours
        THEN IF amount > 0 THEN Outcome(written, <<ErrExceedMax>>, NoAlert, TRUE)
             ELSE IF amount < 0
                  THEN Outcome(written, <<ErrNegative>>, NoAlert, TRUE)
             ELSE Ignored(es)
        ELSE Outcome(written, <<>>, NoAlert, TRUE)

\* addToDate that refuses any sum above the cap
addToDateRejectOverflow(es, dateStr, amount) ==
    LET currentHours == getHoursForDate(es, dateStr)
        newHours == validateAndClampHours(currentHours + amount)
    IN  IF newHours = currentHours \/ currentHours + amount > MaxHours * Scale
        THEN IF amount > 0 THEN Rejected(es, ErrExceedMax)
             ELSE IF amount < 0 THEN Rejected(es, ErrNegative)
             ELSE Ignored(es)
        ELSE Outcome(upsert(es, dateStr, newHours), <<>>, NoAlert, TRUE)

\* the part quickAdd and quickAddForDate share, once the date is fixed
addToDate(es, dateStr, amount) ==
    LET currentHours == getHoursForDate(es, dateStr)
        newHours == validateAndClampHours(currentHours + amount)
    IN  IF newHours = currentHours
        THEN IF amount > 0 THEN Rejected(es, ErrExceedMax)
             ELSE IF amount < 0 THEN Rejected(es, ErrNegative)
             ELSE Ignored(es)
        ELSE Outcome(upsert(es, dateStr, newHours), <<>>, NoAlert, TRUE)

quickAdd(es, clock, amount) ==
    LET today == clock
        startDate == ParseDate(StartDay)
        todayStr == ISODate(today)
    IN  IF today < startDate THEN Rejected(es, ErrBefore2025)
        ELSE addToDate(es, todayStr, amount)

quickAddForDate(es, clock, date, hours) ==
    LET selectedDate == SetUTCHours(ParseDate(date), Noon)
        dateStr == formatDate(selectedDate)
    IN  IF ~isValidDate(selectedDate, clock) THEN Rejected(es, ErrDateWindow)
        ELSE addToDate(es, dateStr, hours)

\* handleQuickHourSelect: the calendar cell's +1h .. +8h buttons
handleQuickHourSelect(es, clock, dateStr, hours) ==
    LET date == SetUTCHours(ParseDate(dateStr), Noon)
    IN  quickAddForDate(es, clock, formatDate(date), hours)

\* entries.map(...) of the partial deletion
RECURSIVE reduceHours(_, _, _)
reduceHours(es, date, amount) ==
    IF es = <<>> THEN <<>>
    ELSE LET e == Head(es)
         IN  <<IF e.date = date THEN [e EXCEPT !.hours = e.hours - amount]
                                ELSE e>>
             \o reduceHours(Tail(es), date, amount)

\* entries.filter(entry => entry.date !== date)
RECURSIVE withoutDate(_, _)
withoutDate(es, date) ==
    IF es = <<>> THEN <<>>
    ELSE IF Head(es).date = date THEN withoutDate(Tail(es), date)
    ELSE <<Head(es)>> \o withoutDate(Tail(es), date)

\* deleteEntry with <= for < : an amount equal to the hours is a partial delete
deleteEntryInclusive(es, date, hoursToDelete) ==
    LET i == findIndex(es, date)
    IN  IF i = 0 THEN Ignored(es)
        ELSE IF Truthy(hoursToDelete) /\ hoursToDelete.val <= es[i].hours
             THEN Outcome(reduceHours(es, date, hoursToDelete.val), <<>>,
                          AlertRemoved, TRUE)
        ELSE Outcome(withoutDate(es, date), <<>>, AlertRemovedAll, TRUE)

deleteEntry(es, date, hoursToDelete) ==
    LET i == findIndex(es, date)
    IN  IF i = 0 THEN Ignored(es)
        ELSE IF Truthy(hoursToDelete) /\ hoursToDelete.val < es[i].hours
             THEN Outcome(reduceHours(es, date, hoursToDelete.val), <<>>,
                          AlertRemoved, TRUE)
        ELSE Outcome(withoutDate(es, date), <<>>, AlertRemovedAll, TRUE)

----------------------------------------------------------------------------
(* The onClick of a calendar cell.  It reads the ledger and writes the     *)
(* dateRange state: what it returns is the next dateRange, its setError    *)
(* messages, its setAlert and the totals getHoursBetweenDates returned.    *)

Clicked(range, errs, alert, reads) ==
    [range |-> range, errs |-> errs, alert |-> alert, reads |-> reads]

\* the endpoints as clicked, without the swap
asClicked(start, end) == <<start, end>>

\* const [startDate, endDate] = start > end ? [end, start] : [start, end]
orderedPair(start, end) == IF start > end THEN <<end, start>> ELSE <<start, end>>

cellClick(es, clock, range, cell) ==
    LET dateToCompare == SetUTCHours(cell.date, 0)
        isPast == isValidDate(dateToCompare, clock)
        clickedDate == formatDate(cell.date)
        pair == orderedPair(range.start.val, clickedDate)
        startDate == pair[1]
        endDate == pair[2]
        hours == getHoursBetweenDates(es, DateStr(startDate), DateStr(endDate))
    IN  IF ~(isPast /\ cell.isCurrentMonth)
        THEN Clicked(range, <<>>, NoAlert, <<>>)
        ELSE IF ~HasDate(range.start)
        THEN Clicked([start |-> DateStr(clickedDate), end |-> NoDate],
                     <<>>, NoAlert, <<>>)
        ELSE IF ~HasDate(range.end)
        THEN IF ~validateDateRange(startDate, endDate)
             THEN Clicked([start |-> NoDate, end |-> NoDate], <<ErrRange>>,
                          NoAlert, <<>>)
             ELSE Clicked([start |-> DateStr(startDate),
                           end |-> DateStr(endDate)],
                          hours.errs,
                          IF hours.total > 0 THEN AlertRangeTotal
                          ELSE AlertRangeNone,
                          <<hours.total>>)
        ELSE Clicked([start |-> DateStr(clickedDate), end |-> NoDate],
                     <<>>, NoAlert, <<>>)

----------------------------------------------------------------------------
(* Inputs *)

\* the instants the clock is read at: 2024-12-31T23, 2025-01-01T13,
\* 2025-12-31T23 and 2026-01-01T00
NowInstants ==
    { ParseDate(StartDay) - 1, ParseDate(StartDay) + Noon + 1,
      ParseDate(EndDay) + DayLen - 1, ParseDate(EndDay + 1) }

\* the dates a handler is called with: 2024-12-31, 2025-01-01, 2025-12-31
\* and 2026-01-01
DateInputs == { StartDay - 1, StartDay, EndDay, EndDay + 1 }

\* parseFloat of the hours field: not a number, -3, 0, 0.1, 12.2, 23.9, 30
SubmitInputs ==
    { NaN, Num(-300), Num(0), Num(10), Num(1220), Num(2390), Num(3000) }

\* the amounts of quickAdd and quickAddForDate: -12, 0, 0.1, 12, 20
AddAmounts == { -1200, 0, 10, 1200, 2000 }

\* the hoursToDelete of deleteEntry: omitted, 0, 12, 23.9
DeleteAmounts == { Undefined, Num(0), Num(1200), Num(2390) }

\* the longest run of quickAdd(0.5) calls followed
MaxCalls == 52

HalfHour == Scale \div 2

----------------------------------------------------------------------------
(* The state machine *)

Idle ==
    [op |-> "init", date |-> StartDay, arg |-> Undefined, cur |-> 0,
     had |-> FALSE, errs |-> <<>>, alert |-> NoAlert, wrote |-> FALSE,
     end |-> NoDate, reads |-> <<>>, outcome |-> "none"]

\* local time minus UTC: Los Angeles, UTC, and Auckland in January
TimeZones == { -8, 0, 13 }

NoRange == [start |-> NoDate, end |-> NoDate]

\* useState(new Date(2025, 0, 1))
InitialMonth(z) == NewLocalDate(StartYear, 0, 1, z)

\* The page as mounted on an empty localStorage.  The ledger handlers read no
\* local time, the calendar is followed in SpecCalendar and SpecSelect
Init ==
    /\ entries = <<>>
    /\ now \in NowInstants
    /\ last = Idle
    /\ calls = 0
    /\ storage = JSONstringify(<<>>)
    /\ status = "running"
    /\ tz = 0
    /\ currentMonth = InitialMonth(tz)
    /\ dateRange = NoRange
    /\ exports = <<>>

\* A handler ran to completion: its setEntries took effect and the render that
\* follows any state change sorted the entries array in place
Ran(op, date, arg, res) ==
    /\ status = "running"
    /\ entries' = IF res.wrote \/ res.errs # <<>> \/ res.alert # NoAlert
                  THEN renderSort(res.entries)
                  ELSE res.entries
    /\ last' = [op |-> op, date |-> date, arg |-> arg,
                cur |-> getHoursForDate(entries, date),
                had |-> findIndex(entries, date) # 0,
                errs |-> res.errs, alert |-> res.alert, wrote |-> res.wrote,
                end |-> NoDate, reads |-> <<>>, outcome |-> "none"]
    /\ storage' = IF res.wrote THEN JSONstringify(entries') ELSE storage
    /\ UNCHANGED <<now, status, currentMonth, dateRange, tz, exports>>

HandleSubmit ==
    \E d \in DateInputs, h \in SubmitInputs :
        /\ Ran("handleSubmit", d, h, handleSubmit(entries, now, d, h))
        /\ UNCHANGED calls

QuickAdd ==
    \E a \in AddAmounts :
        /\ Ran("quickAdd", ISODate(now), Num(a), quickAdd(entries, now, a))
        /\ UNCHANGED calls

QuickAddForDate ==
    \E d \in DateInputs, a \in AddAmounts :
        /\ Ran("quickAddForDate", d, Num(a),
               handleQuickHourSelect(entries, now, d, a))
        /\ UNCHANGED calls

DeleteEntry ==
    \E d \in DateInputs, a \in DeleteAmounts :
        /\ Ran("deleteEntry", d, a, deleteEntry(entries, d, a))
        /\ UNCHANGED calls

\* time passes: the clock never moves backwards
Tick ==
    /\ \E t \in NowInstants : t > now /\ now' = t
    /\ last' = [Idle EXCEPT !.op = "tick"]
    /\ UNCHANGED <<entries, calls, storage, status, currentMonth, dateRange,
                   tz, exports>>

\* The component mounts: the entries initializer reads the snapshot, the first
\* render sorts the array in place, and the effect of lines 32-34, which runs
\* after every render whose entries differ from the last one's, writes it
\* back.  A throw in the initializer or in the render leaves nothing mounted
Mounting ==
    LET saved == initialEntries(storage)
    IN  /\ status' = IF saved.threw THEN "crashed" ELSE "running"
        /\ entries' = renderSort(saved.entries)
        /\ storage' = IF saved.threw THEN storage ELSE JSONstringify(entries')
        /\ dateRange' = NoRange
        /\ exports' = <<>>
        /\ currentMonth' = InitialMonth(tz)
        /\ UNCHANGED <<now, calls, tz>>

\* the user reloads the page
Reload ==
    /\ status = "running"
    /\ Mounting
    /\ last' = [Idle EXCEPT !.op = "reload"]

Next ==
    \/ HandleSubmit
    \/ QuickAdd
    \/ QuickAddForDate
    \/ DeleteEntry
    \/ Reload
    \/ Tick

Spec == Init /\ [][Next]_vars

\* Repeated quickAdd(0.5) on one day, from a day with 0 hours (no record, or
\* a record of 0 hours)
InitHalf ==
    /\ now \in { t \in NowInstants : t >= ParseDate(StartDay) }
    /\ entries \in { <<>>, <<[date |-> ISODate(now), hours |-> 0]>> }
    /\ last = Idle
    /\ calls = 0
    /\ storage = JSONstringify(entries)
    /\ status = "running"
    /\ tz = 0
    /\ currentMonth = InitialMonth(tz)
    /\ dateRange = NoRange
    /\ exports = <<>>

QuickAddHalf ==
    /\ calls < MaxCalls
    /\ Ran("quickAdd", ISODate(now), Num(HalfHour),
           quickAdd(entries, now, HalfHour))
    /\ calls' = calls + 1

NextHalf == QuickAddHalf

SpecHalf == InitHalf /\ [][NextHalf]_vars

\* One handleSubmit with any hours value from 0 to 24 in steps of 0.05, or
\* an unparseable one, on a ledger without or with a record for 2025-01-01
HoursGrid == { Num(5 * k) : k \in 0..((MaxHours * Scale) \div 5) } \cup { NaN }

InitSubmit ==
    /\ now \in { t \in NowInstants : t >= ParseDate(StartDay) }
    /\ entries \in { <<>>, <<[date |-> StartDay, hours |-> 12 * Scale]>> }
    /\ last = Idle
    /\ calls = 0
    /\ storage = JSONstringify(entries)
    /\ status = "running"
    /\ tz = 0
    /\ currentMonth = InitialMonth(tz)
    /\ dateRange = NoRange
    /\ exports = <<>>

SubmitOnce ==
    /\ last.op = "init"
    /\ \E d \in DateInputs, h \in HoursGrid :
           Ran("handleSubmit", d, h, handleSubmit(entries, now, d, h))
    /\ UNCHANGED calls

NextSubmit == SubmitOnce

SpecSubmit == InitSubmit /\ [][NextSubmit]_vars

\* The first mount of the page on whatever the storage key holds: nothing, an
\* empty text, a text that is no JSON, JSON that is no array, an array with a
\* null element, or a snapshot the page wrote
StoredLedgers ==
    { <<>>,
      <<[date |-> StartDay, hours |-> 0]>>,
      <<[date |-> StartDay, hours |-> 12 * Scale]>>,
      <<[date |-> StartDay, hours |-> 10]>>,
      <<[date |-> EndDay, hours |-> MaxHours * Scale],
        [date |-> StartDay, hours |-> HalfHour]>>,
      <<[date |-> StartDay, hours |-> HalfHour],
        [date |-> EndDay, hours |-> MaxHours * Scale]>> }

MalformedItems ==
    { NotJSON, JNull, JEmptyObject, JNumber(42 * Scale), JString(StartDay),
      JArray(<<JNull>>),
      JArray(<<JRecord([date |-> StartDay, hours |-> Scale]), JNull>>) }

StoredItems ==
    { NoItem, EmptyText } \cup MalformedItems
    \cup { JSONstringify(es) : es \in StoredLedgers }

InitBoot ==
    /\ status = "unmounted"
    /\ storage \in StoredItems
    /\ entries = <<>>
    /\ now \in NowInstants
    /\ tz \in TimeZones
    /\ last = Idle
    /\ calls = 0
    /\ currentMonth = InitialMonth(tz)
    /\ dateRange = NoRange
    /\ exports = <<>>

Mount ==
    /\ status = "unmounted"
    /\ Mounting
    /\ last' = [Idle EXCEPT !.op = "mount"]

NextBoot == Mount

SpecBoot == InitBoot /\ [][NextBoot]_vars

\* getHoursBetweenDates on every pair of dates around the two ends of 2025,
\* on ledgers the handlers can build with the clock in 2026
RangeDates ==
    { StartDay - 1, StartDay, StartDay + 1, EndDay, EndDay + 1, EndDay + 2 }

RangeLedgers ==
    { <<>>,
      <<[date |-> StartDay, hours |-> 12 * Scale]>>,
      <<[date |-> EndDay, hours |-> 2 * Scale],
        [date |-> StartDay, hours |-> 12 * Scale]>>,
      <<[date |-> EndDay + 1, hours |-> Scale],
        [date |-> EndDay, hours |-> 2 * Scale],
        [date |-> StartDay, hours |-> 12 * Scale]>> }

InitRange ==
    /\ entries \in RangeLedgers
    /\ now = ParseDate(EndDay + 1)
    /\ last = Idle
    /\ calls = 0
    /\ storage = JSONstringify(entries)
    /\ status = "running"
    /\ tz = 0
    /\ currentMonth = InitialMonth(tz)
    /\ dateRange = NoRange
    /\ exports = <<>>

ReadRange ==
    /\ status = "running"
    /\ \E a \in RangeDates, b \in RangeDates :
        LET r == getHoursBetweenDates(entries, DateStr(a), DateStr(b))
        IN  last' = [Idle EXCEPT !.op = "getHoursBetweenDates", !.date = a,
                                 !.end = DateStr(b), !.errs = r.errs,
                                 !.reads = <<r.total>>]
    /\ UNCHANGED <<entries, now, calls, storage, status, currentMonth,
                   dateRange, tz, exports>>

NextRange == ReadRange

SpecRange == InitRange /\ [][NextRange]_vars

\* Month navigation from January 2025, between December 2024 and January
\* 2026, over ledgers with records on the first and the last day of a month
MonthsBack == 1
MaxMonth == 12

\* months from January 2025 to the displayed month
MonthIndex(t, z) ==
    (getFullYear(t, z) - StartYear) * MonthsPerYear + getMonth(t, z)

Directions == { "prev", "next" }

NavigateWithin(lo, hi) ==
    /\ status = "running"
    /\ \E direction \in Directions :
        LET newMonth == navigateMonth(currentMonth, tz, direction)
        IN  /\ MonthIndex(newMonth, tz) \in lo..hi
            /\ currentMonth' = newMonth
            /\ last' = [Idle EXCEPT !.op = "navigateMonth",
                            !.reads = <<getCurrentMonthHours(entries, newMonth, tz)>>]
    /\ UNCHANGED <<entries, now, calls, storage, status, dateRange, tz,
                   exports>>

MonthLedgers ==
    { <<>>,
      <<[date |-> StartDay, hours |-> 12 * Scale]>>,
      <<[date |-> EndDay, hours |-> Scale],
        [date |-> StartDay + 14, hours |-> 2 * Scale]>>,
      <<[date |-> StartDay + 31, hours |-> 4 * Scale],
        [date |-> StartDay + 30, hours |-> HalfHour]>> }

InitCalendar ==
    /\ entries \in MonthLedgers
    /\ now = ParseDate(EndDay + 1)
    /\ tz \in TimeZones
    /\ currentMonth = InitialMonth(tz)
    /\ dateRange = NoRange
    /\ exports = <<>>
    /\ last = [Idle EXCEPT !.reads = <<getCurrentMonthHours(entries, currentMonth, tz)>>]
    /\ calls = 0
    /\ storage = JSONstringify(entries)
    /\ status = "running"

NavigateMonth == NavigateWithin(-MonthsBack, MaxMonth)

NextCalendar == NavigateMonth

SpecCalendar == InitCalendar /\ [][NextCalendar]_vars

\* Clicks on cells of the calendar of January to March 2025
NearMonth == 2

ClickCells == { 1, 4, 5, 20, 34 }

SelectLedgers ==
    { <<>>,
      <<[date |-> StartDay + 16, hours |-> 2 * Scale]>>,
      <<[date |-> StartDay + 44, hours |-> 4 * Scale],
        [date |-> StartDay + 1, hours |-> 150]>> }

InitSelect ==
    /\ entries \in SelectLedgers
    /\ now \in { ParseDate(StartDay + 1) + Noon, ParseDate(EndDay) + Noon }
    /\ tz \in TimeZones
    /\ currentMonth = InitialMonth(tz)
    /\ dateRange = NoRange
    /\ exports = <<>>
    /\ last = Idle
    /\ calls = 0
    /\ storage = JSONstringify(entries)
    /\ status = "running"

NavigateNear == NavigateWithin(0, NearMonth)

\* a click on the i-th cell of the grid the last render drew
ClickCell ==
    /\ status = "running"
    /\ \E days \in { getDaysInMonth(currentMonth, tz) }, i \in ClickCells :
        LET cell == days[i]
            res == cellClick(entries, now, dateRange, cell)
        IN  /\ dateRange' = res.range
            /\ last' = [Idle EXCEPT !.op = "click", !.arg = Num(i),
                            !.date = formatDate(cell.date),
                            !.errs = res.errs, !.alert = res.alert,
                            !.reads = res.reads]
    /\ UNCHANGED <<entries, now, calls, storage, status, currentMonth, tz,
                   exports>>

NextSelect == NavigateNear \/ ClickCell

SpecSelect == InitSelect /\ [][NextSelect]_vars

----------------------------------------------------------------------------
(* The image exports.  Each is an async function: it runs to its await of  *)
(* toPng, is suspended while html-to-image rasterizes the hidden calendar, *)
(* and resumes in a later task with the data URL or with the rejection.    *)
(* The hidden calendar is rendered by every render, so getElementById      *)
(* finds it and 'Could not find calendar element to export' is never set.  *)

\* the exports followed at the same time
MaxExports == 2

\* an export that lets no other export wait beside it
suspendAlone(exps, kind) == IF exps = <<>> THEN <<kind>> ELSE exps

\* await toPng(exportRef, ...): the call is left suspended beside the
\* exports that are suspended already
suspend(exps, kind) == Append(exps, kind)

\* What an export did in one task: the messages it passed to setError in
\* order, the alert its last setAlert left, whether it is now suspended in
\* toPng, whether it assigned window.location.href, and how it ended
Exported(errs, alert, awaits, leaves, outcome) ==
    [errs |-> errs, alert |-> alert, awaits |-> awaits, leaves |-> leaves,
     outcome |-> outcome]

\* link.click() in a try block: clicked is whether it returned
downloadImage(clicked) ==
    IF clicked
    THEN Exported(<<>>, AlertDownloaded, FALSE, FALSE, "downloaded")
    ELSE Exported(<<ErrDownload>>, NoAlert, FALSE, FALSE, "downloadFailed")

\* savePNG up to its await: total is the totalHours of the render
savePNG(total) ==
    IF total = 0
    THEN Exported(<<ErrNoHours>>, NoAlert, FALSE, FALSE, "nothing")
    ELSE Exported(<<>>, NoAlert, TRUE, FALSE, "suspended")

\* savePNG from its await: rasterized is whether toPng resolved
savePNGResumed(rasterized, clicked) ==
    IF rasterized
    THEN downloadImage(clicked)
    ELSE Exported(<<ErrSave>>, NoAlert, FALSE, FALSE, "rasterFailed")

\* exportAndShare up to its await: it does not look at totalHours
exportAndShare == Exported(<<>>, NoAlert, TRUE, FALSE, "suspended")

\* exportAndShare from its await: downloadImage catches its own failure, so
\* the tweet address is assigned and the second alert is set in either case
exportAndShareResumed(rasterized, clicked) ==
    IF rasterized
    THEN Exported(downloadImage(clicked).errs, AlertShared, FALSE, TRUE,
                  downloadImage(clicked).outcome)
    ELSE Exported(<<ErrExport>>, NoAlert, FALSE, FALSE, "rasterFailed")

\* 2025-01-02 12:00Z, with nothing logged or with 1.5 hours on 2025-01-01
ExportLedgers ==
    { <<>>, <<[date |-> StartDay, hours |-> 150]>> }

InitExport ==
    /\ entries \in ExportLedgers
    /\ now = ParseDate(StartDay + 1) + Noon
    /\ tz = 0
    /\ currentMonth = InitialMonth(tz)
    /\ dateRange = NoRange
    /\ exports = <<>>
    /\ last = Idle
    /\ calls = 0
    /\ storage = JSONstringify(entries)
    /\ status = "running"

\* One task of an export ran.  Neither button is ever disabled; a page that
\* left for the tweet address runs no further task of its exports
ExportRan(kind, res, rest) ==
    /\ status = "running"
    /\ last' = [Idle EXCEPT !.op = kind, !.errs = res.errs,
                    !.alert = res.alert, !.outcome = res.outcome]
    /\ exports' = IF res.leaves THEN <<>> ELSE rest
    /\ status' = IF res.leaves THEN "left" ELSE status
    /\ UNCHANGED <<entries, now, calls, storage, currentMonth, dateRange, tz>>

\* a click on 'Save as PNG'
StartSavePNG ==
    /\ Len(exports) < MaxExports
    /\ \E res \in { savePNG(totalHours(entries)) } :
        ExportRan("savePNG", res,
                  IF res.awaits
                  THEN suspend(exports, "savePNG")
                  ELSE exports)

\* a click on 'Share on Twitter'
StartExportAndShare ==
    /\ Len(exports) < MaxExports
    /\ ExportRan("exportAndShare", exportAndShare,
                 suspend(exports, "exportAndShare"))

\* the toPng of any suspended export settles, in any order
ResumeExport ==
    \E i \in 1..Len(exports), rasterized \in BOOLEAN, clicked \in BOOLEAN :
        LET rest == SubSeq(exports, 1, i - 1)
                        \o SubSeq(exports, i + 1, Len(exports))
        IN  ExportRan(exports[i],
                      IF exports[i] = "savePNG"
                      THEN savePNGResumed(rasterized, clicked)
                      ELSE exportAndShareResumed(rasterized, clicked),
                      rest)

NextExport ==
    \/ StartSavePNG
    \/ StartExportAndShare
    \/ ResumeExport
    \/ QuickAdd
    \/ DeleteEntry

SpecExport == InitExport /\ [][NextExport]_vars

----------------------------------------------------------------------------
(* Vocabulary of the properties *)

Handlers == { "handleSubmit", "quickAdd", "quickAddForDate", "deleteEntry" }

Adders == { "quickAdd", "quickAddForDate" }

Today == ISODate(now)

\* the closed interval [2025-01-01, 2025-12-31], not after today
InWindow(d) == d >= StartDay /\ d <= EndDay /\ d <= Today

HasRecord(d) == \E i \in 1..Len(entries) : entries[i].date = d

\* the records of every date but d
OtherRecords(es, d) == { es[i] : i \in { j \in 1..Len(es) : es[j].date # d } }

\* the multiple of 0.5 nearest to x, the upper one when two are equally near
NearestHalf(x) ==
    CHOOSE m \in { HalfHour * k : k \in -(4 * MaxHours)..(6 * MaxHours) } :
        2 * m - HalfHour <= 2 * x /\ 2 * x < 2 * m + HalfHour

\* clamp(round_half(x)) of the ledger's description
Candidate(x) == Min(Max(0, NearestHalf(x)), MaxHours * Scale)

\* the dates that have a record
LedgerDates(es) == { es[i].date : i \in 1..Len(es) }

\* the sum of current(d) over the dates d of S
RECURSIVE SumCurrentOver(_, _)
SumCurrentOver(es, S) ==
    IF S = {} THEN 0
    ELSE LET d == CHOOSE x \in S : TRUE
         IN  getHoursForDate(es, d) + SumCurrentOver(es, S \ {d})

\* what is logged from date lo to date hi, both included
LoggedBetween(es, lo, hi) ==
    SumCurrentOver(es, { d \in LedgerDates(es) : lo <= d /\ d <= hi })

\* a cell of the displayed grid the click handler acts on: one of the
\* displayed month whose date passes isValidDate
CellAt(i) == getDaysInMonth(currentMonth, tz)[i]

Clickable(cell) ==
    cell.isCurrentMonth /\ isValidDate(SetUTCHours(cell.date, 0), now)

----------------------------------------------------------------------------
(* C1 *)

\* C1 (I3): every record's date lies in [2025-01-01, 2025-12-31], whatever
\* the current date is.  quickAdd checks only the lower end of the window, so
\* this is violated once the clock is in 2026.
C1_DatesIn2025 ==
    \A i \in 1..Len(entries) :
        entries[i].date >= StartDay /\ entries[i].date <= EndDay

----------------------------------------------------------------------------
(* C2 *)

\* C2 (I1): every record has 0 <= hours <= 24 and hours a multiple of 0.5,
\* whatever numbers the handlers are called with.  deleteEntry subtracts its
\* amount unrounded, so 24 - 23.9 leaves a record of 0.1 hours.
C2_HoursOnGrid ==
    \A i \in 1..Len(entries) :
        /\ entries[i].hours >= 0
        /\ entries[i].hours <= MaxHours * Scale
        /\ entries[i].hours % HalfHour = 0

----------------------------------------------------------------------------
(* C3 *)

\* C3 (I2): no two records share a date; a write to a date that has a record
\* replaces that record's hours and does not append a second record.
C3_UniqueDates ==
    /\ \A i, j \in 1..Len(entries) :
           entries[i].date = entries[j].date => i = j
    /\ (last.op \in { "handleSubmit" } \cup Adders /\ last.wrote)
           => Len(SelectSeq(entries, LAMBDA e : e.date = last.date)) = 1

\* a write to a date that already had a record, with another record around
C3_Witness ==
    /\ last.op \in { "handleSubmit" } \cup Adders
    /\ last.wrote
    /\ last.had
    /\ Len(entries) >= 2
    /\ getHoursForDate(entries, last.date) # last.cur

----------------------------------------------------------------------------
(* C4 *)

\* C4 (I4): with a clock that never moves backwards, no record's date is later
\* than the current (UTC) date, in the state right after the write and in
\* every later state.
C4_NoFutureDates ==
    \A i \in 1..Len(entries) : entries[i].date <= Today

\* a record written for today, and an older record seen after the clock moved
C4_Witness ==
    /\ last.wrote
    /\ last.date = Today
    /\ HasRecord(Today)
    /\ \E i \in 1..Len(entries) : entries[i].date < Today

----------------------------------------------------------------------------
(* C5 *)

\* C5 as stated: handleSubmit for a date outside the window fails with the
\* date error whatever the hours field holds.
C5_AlwaysDateError ==
    (last.op = "handleSubmit" /\ ~InWindow(last.date))
        => last.errs = <<ErrDateWindow>>

\* the error handleSubmit reports for a date outside the window: the hours
\* checks come first
C5_ExpectedError(h) ==
    IF h.tag # "num" THEN ErrInvalidInput
    ELSE IF h.val # 0 /\ Candidate(h.val) = 0 THEN ErrHoursRange
    ELSE ErrDateWindow

\* C5 (amended): handleSubmit for a date before 2025-01-01, after 2025-12-31
\* or after today always fails with exactly one error and leaves the entries
\* unchanged; the error is the date error unless the hours field does not
\* parse (invalid input) or is a non-zero value that rounds or clamps to 0
\* (hours out of range).
C5_OutOfWindowRejected ==
    /\ [](( last.op = "handleSubmit" /\ ~InWindow(last.date))
            => /\ last.errs = <<C5_ExpectedError(last.arg)>>
               /\ ~last.wrote
               /\ getHoursForDate(entries, last.date) = last.cur)
    /\ [][(last'.op = "handleSubmit" /\ last'.errs # <<>>)
            => entries' = entries]_vars

\* a date in 2026 submitted with valid hours while other records exist
C5_Witness ==
    /\ last.op = "handleSubmit"
    /\ last.date > EndDay
    /\ last.arg = Num(1220)
    /\ last.errs = <<ErrDateWindow>>
    /\ Len(entries) >= 1

----------------------------------------------------------------------------
(* C6 *)

\* the hours values between 0 and 24 that handleSubmit is called with
C6_InRange(h) == h.tag = "num" /\ h.val >= 0 /\ h.val <= MaxHours * Scale

\* C6 as stated: for an in-window date and any h with 0 <= h <= 24, a read
\* right after handleSubmit returns h rounded to the nearest 0.5.  A value
\* below 0.25 over a 12-hour record leaves the read at 12.
C6_ReadIsRounded ==
    (last.op = "handleSubmit" /\ InWindow(last.date) /\ C6_InRange(last.arg))
        => getHoursForDate(entries, last.date) = NearestHalf(last.arg.val)

\* C6 (amended): for an in-window date and h = 0 or 0.25 <= h <= 24,
\* handleSubmit succeeds and a read right after it returns h rounded to the
\* nearest 0.5; for 0 < h < 0.25 (h rounds to 0) it fails with the hours
\* range error and the read returns what it returned before.
C6_ReadIsRoundedOrRejected ==
    (last.op = "handleSubmit" /\ InWindow(last.date) /\ C6_InRange(last.arg))
        => IF last.arg.val = 0 \/ 2 * last.arg.val >= HalfHour
           THEN /\ last.errs = <<>>
                /\ HasRecord(last.date)
                /\ getHoursForDate(entries, last.date)
                       = NearestHalf(last.arg.val)
           ELSE /\ last.errs = <<ErrHoursRange>>
                /\ getHoursForDate(entries, last.date) = last.cur

\* 23.9 logged over a record of other hours: the read returns 24
C6_Witness ==
    /\ last.op = "handleSubmit"
    /\ last.arg = Num(2390)
    /\ last.had
    /\ last.cur # 2400
    /\ getHoursForDate(entries, last.date) = 2400

----------------------------------------------------------------------------
(* C7 *)

\* C7 as stated: every handler either calls setEntries or signals exactly
\* one error (adds of 0, which the interface never makes, set aside).
C7_WriteOrOneError ==
    (last.op \in Handlers /\ ~(last.op \in Adders /\ last.arg.val = 0))
        => \/ last.wrote /\ last.errs = <<>>
           \/ ~last.wrote /\ Len(last.errs) = 1

\* the calls that do nothing and say nothing
C7_Silent ==
    \/ last.op = "deleteEntry" /\ ~last.had
    \/ last.op \in Adders /\ last.arg.val = 0

\* C7 (amended): a handler signals at most one error; when it signals one it
\* does not call setEntries and no record is added, removed or changed; a
\* handler that neither writes nor signals is deleteEntry on a date without
\* a record or an add of 0, and it leaves the entries unchanged too.
C7_NoPartialMutation ==
    /\ [](last.op \in Handlers
            => /\ Len(last.errs) <= 1
               /\ last.errs # <<>> => ~last.wrote
               /\ (~last.wrote /\ last.errs = <<>>) => C7_Silent)
    /\ [][~last'.wrote => entries' = entries]_vars

\* an add refused at the cap while two records exist
C7_Witness ==
    /\ last.op \in Adders
    /\ last.errs = <<ErrExceedMax>>
    /\ Len(entries) >= 2
    /\ getHoursForDate(entries, last.date) = MaxHours * Scale

----------------------------------------------------------------------------
(* C8 *)

\* the date check of the two add handlers passed
C8_DateAccepted ==
    \/ last.op = "quickAdd" /\ now >= ParseDate(StartDay)
    \/ last.op = "quickAddForDate" /\ InWindow(last.date)

\* what C8 says of an add of a non-zero delta
C8_Rule ==
    LET delta == last.arg.val
        candidate == Candidate(last.cur + delta)
    IN  IF candidate = last.cur
        THEN /\ last.errs = <<IF delta > 0 THEN ErrExceedMax ELSE ErrNegative>>
             /\ getHoursForDate(entries, last.date) = last.cur
             /\ HasRecord(last.date) = last.had
        ELSE /\ last.errs = <<>>
             /\ getHoursForDate(entries, last.date) = candidate

\* C8 as stated: an add of a non-zero delta fails exactly when the clamped
\* candidate equals the current hours, and succeeds in every other case.
C8_FailsOnlyWhenAbsorbed ==
    (last.op \in Adders /\ last.arg.val # 0) => C8_Rule

\* C8 (amended): an add of a non-zero delta whose date check passed (quickAdd:
\* the clock is not before 2025-01-01; quickAddForDate: the date is in the
\* window) fails exactly when the clamped candidate equals the current hours,
\* with the maximum error for delta > 0 and the negative error for delta < 0;
\* otherwise it succeeds and the date reads the clamped candidate, also when
\* the cap absorbed part of the delta.  When the date check fails the add
\* fails with the date error.  A failed add leaves the entries unchanged.
C8_AddRule ==
    /\ []((last.op \in Adders /\ last.arg.val # 0)
            => IF C8_DateAccepted THEN C8_Rule
               ELSE last.errs = <<IF last.op = "quickAdd" THEN ErrBefore2025
                                                        ELSE ErrDateWindow>>)
    /\ [][(last'.op \in Adders /\ last'.errs # <<>>)
            => entries' = entries]_vars

\* 12 + 20 gives 24 with no error
C8_Witness ==
    /\ last.op \in Adders
    /\ last.cur = 1200
    /\ last.arg = Num(2000)
    /\ last.errs = <<>>
    /\ getHoursForDate(entries, last.date) = MaxHours * Scale

----------------------------------------------------------------------------
(* C9 *)

\* C9: from a day with 0 hours, the n-th quickAdd(0.5) succeeds and leaves
\* 0.5 * n hours for n = 1..48; the 49th and every later call fails with the
\* maximum error and leaves 24.
C9_HalfHourLadder ==
    /\ calls <= 2 * MaxHours
           => /\ getHoursForDate(entries, Today) = HalfHour * calls
              /\ last.errs = <<>>
              /\ calls >= 1 => last.wrote
    /\ calls > 2 * MaxHours
           => /\ getHoursForDate(entries, Today) = MaxHours * Scale
              /\ last.errs = <<ErrExceedMax>>
              /\ ~last.wrote

\* the 49th call
C9_Witness ==
    /\ calls = 2 * MaxHours + 1
    /\ last.op = "quickAdd"
    /\ last.cur = MaxHours * Scale
    /\ last.errs = <<ErrExceedMax>>

----------------------------------------------------------------------------
(* C10 *)

\* C10: deleteEntry with no amount or an amount >= the current hours removes
\* the date's record and the date reads 0; with 0 < amount < current it keeps
\* the record with current - amount; on a date without a record it changes
\* nothing and signals nothing; the records of other dates are never changed.
C10_DeleteRule ==
    /\ [](last.op = "deleteEntry"
            => /\ last.errs = <<>>
               /\ (last.arg.tag = "undefined"
                     \/ (last.arg.tag = "num" /\ last.arg.val >= last.cur))
                    => /\ ~HasRecord(last.date)
                       /\ getHoursForDate(entries, last.date) = 0
               /\ (last.had /\ last.arg.tag = "num" /\ last.arg.val > 0
                     /\ last.arg.val < last.cur)
                    => /\ HasRecord(last.date)
                       /\ getHoursForDate(entries, last.date)
                              = last.cur - last.arg.val)
    /\ [][last'.op = "deleteEntry"
            => /\ OtherRecords(entries', last'.date)
                      = OtherRecords(entries, last'.date)
               /\ ~last'.had => entries' = entries]_vars

\* 24 - 12 leaves 12 and the other record stays
C10_Witness ==
    /\ last.op = "deleteEntry"
    /\ last.cur = 2400
    /\ last.arg = Num(1200)
    /\ getHoursForDate(entries, last.date) = 1200
    /\ Len(entries) >= 2

----------------------------------------------------------------------------
(* C11 *)

\* C11 as stated: the range total is the same with its endpoints swapped,
\* because the operation itself orders them.  The second click of a selection
\* calls getHoursBetweenDates(start, end); the call with the same two dates
\* swapped returns the same total.  getHoursBetweenDates does not order its
\* arguments: with start > end its filter selects nothing.
C11_SwapSymmetric ==
    (last.op = "click" /\ Len(last.reads) = 1)
        => getHoursBetweenDates(entries, dateRange.end, dateRange.start).total
               = last.reads[1]

\* C11, amended: the endpoints are ordered by the click handler, not by the
\* operation.  Whichever of two dates is clicked first, the second click
\* stores the earlier one as start and the later one as end, and the one
\* total it reads is what is logged from the earlier to the later date.
C11_ClickOrderIrrelevant ==
    [][(/\ last'.op = "click"
        /\ HasDate(dateRange.start) /\ ~HasDate(dateRange.end)
        /\ Clickable(CellAt(last'.arg.val)))
        => LET a == dateRange.start.val
               b == last'.date
           IN  /\ dateRange' = [start |-> DateStr(Min(a, b)),
                                end |-> DateStr(Max(a, b))]
               /\ last'.reads
                      = <<LoggedBetween(entries, Min(a, b), Max(a, b))>>]_vars

\* the later date was clicked first, and hours are logged between the two
C11_Witness ==
    /\ last.op = "click"
    /\ HasDate(dateRange.end)
    /\ last.date = dateRange.start.val
    /\ dateRange.start.val < dateRange.end.val
    /\ last.reads # <<>>
    /\ last.reads[1] > 0

----------------------------------------------------------------------------
(* C12 *)

\* the number of calendar dates from a to b, both counted, in either order
InclusiveSpan(a, b) == (IF a <= b THEN b - a ELSE a - b) + 1

RangeFailed == last.errs = <<ErrRange>> /\ last.reads = <<0>>

\* C12 as stated: the range total fails with the range-too-large error
\* exactly when the inclusive span of its two dates exceeds 365 days, a span
\* of 366 days included, whatever records lie inside.  validateDateRange
\* compares the difference of the two dates, one less than the span, with
\* 365, so a span of 366 days is accepted.
C12_FailsOverSpan365 ==
    last.op = "getHoursBetweenDates"
        => IF InclusiveSpan(last.date, last.end.val) > maxRangeDays
           THEN RangeFailed
           ELSE last.errs = <<>>

\* C12, amended: the range total fails exactly when its two dates are more
\* than 365 days apart, that is when the inclusive span exceeds 366 days,
\* whatever records lie inside; a span of exactly 366 days (2025-01-01 to
\* 2026-01-01) is accepted and summed.
C12_FailsOverDifference365 ==
    last.op = "getHoursBetweenDates"
        => IF InclusiveSpan(last.date, last.end.val) > maxRangeDays + 1
           THEN RangeFailed
           ELSE /\ last.errs = <<>>
                /\ last.date <= last.end.val
                     => last.reads
                          = <<LoggedBetween(entries, last.date, last.end.val)>>

\* a span of 367 days with three records inside fails
C12_Witness ==
    /\ last.op = "getHoursBetweenDates"
    /\ InclusiveSpan(last.date, last.end.val) = maxRangeDays + 2
    /\ RangeFailed
    /\ LoggedBetween(entries, last.date, last.end.val) > 0
    /\ Len(entries) = 3

----------------------------------------------------------------------------
(* C13 *)

\* the year and month the calendar header shows
DisplayedYear == getFullYear(currentMonth, tz)
DisplayedMonth == getMonth(currentMonth, tz)

\* what is logged on the dates of year y, month m
LoggedInMonth(es, y, m) ==
    SumCurrentOver(es, { d \in LedgerDates(es) :
                            YearOfDay(d) = y /\ MonthOfDay(d) = m })

\* the 'This Month' total is what is logged in the displayed year and month
ThisMonthIsDisplayedMonth ==
    last.op \in {"init", "navigateMonth"}
        => last.reads = <<LoggedInMonth(entries, DisplayedYear, DisplayedMonth)>>

\* C13: for every displayed (year, month) that month navigation reaches, in
\* 2025 or not, the 'This Month' total is the sum of hours of exactly the
\* records dated in that year and that month; a record of the same month of
\* another year is not counted.  Stated for an environment whose local time
\* is UTC.  getCurrentMonthHours compares month indexes only, so January
\* 2026 shows the hours of January 2025.
C13_MonthOfDisplayedYear == tz = 0 => ThisMonthIsDisplayedMonth

\* The same in every time zone.  getCurrentMonthHours reads a record's month
\* from the local time of its UTC midnight: west of Greenwich the first day
\* of a month counts for the month before.
C13_InEveryTimeZone == ThisMonthIsDisplayedMonth

----------------------------------------------------------------------------
(* C14 *)

\* the day number of the first day of year y, month m, its weekday (Sunday
\* is 0), and the grid the description gives for that month: 42 consecutive
\* dates, the first one w days before the 1st, the month's days marked
FirstOfMonth(y, m) == YearStart(y) + DaysBeforeMonth(y, m)

WeekdayOf(d) == (d - YearStart(EpochYear) + EpochWeekday) % DaysPerWeek

GridIsMonth(days, y, m) ==
    LET first == FirstOfMonth(y, m)
        w == WeekdayOf(first)
    IN  /\ Len(days) = GridCells
        /\ \A i \in 1..Len(days) :
            /\ formatDate(days[i].date) = first - w + (i - 1)
            /\ days[i].isCurrentMonth
                   <=> (i > w /\ i <= w + MonthLength(y, m))

\* C14: for every displayed (year, month) the grid is exactly 42 cells of 42
\* consecutive dates: the w days before the 1st (w its weekday, Sunday 0)
\* not in the month, then every day of the month in order, in the month,
\* then the first days of the next month, not in the month; January 2025 has
\* its first in-month cell at position 4, dated 2025-01-01.  getDaysInMonth
\* builds the cells at 12:00 UTC and reads the number of days and the
\* weekday with the local getters: twelve hours or more east of Greenwich
\* these read the next day.
C14_GridOfMonth ==
    LET days == getDaysInMonth(currentMonth, tz)
    IN  /\ GridIsMonth(days, DisplayedYear, DisplayedMonth)
        /\ (DisplayedYear = StartYear /\ DisplayedMonth = 0)
              => /\ days[4] = Cell(ParseDate(StartDay) + Noon, TRUE)
                 /\ \A i \in 1..3 : ~days[i].isCurrentMonth

\* the same where local time is less than twelve hours ahead of UTC
C14_GridWestOfDateLine == tz < DayLen - Noon => C14_GridOfMonth

\* such a grid is displayed: February 2025 in Los Angeles
C14_GridWestOfDateLineSeen ==
    /\ tz < 0
    /\ DisplayedMonth = 1
    /\ Len(getDaysInMonth(currentMonth, tz)) = GridCells

----------------------------------------------------------------------------
(* C15 *)

\* C15: a malformed snapshot (a text that is no JSON, or JSON that is not an
\* array of records) found at the first mount is taken for an empty ledger:
\* the page runs and its ledger is empty.  The initializer calls JSON.parse
\* outside any try, and the first render calls entries.reduce on whatever it
\* returned.
C15_MalformedIsEmpty ==
    [][(storage \in MalformedItems /\ last'.op = "mount")
          => (status' = "running" /\ entries' = <<>>)]_vars

----------------------------------------------------------------------------
(* C16 *)

\* the (date, hours) pairs a ledger holds, and those a snapshot text holds
RecordsOf(es) == { <<es[i].date, es[i].hours>> : i \in 1..Len(es) }

SnapshotRecords(text) ==
    { <<text.items[i].date.chars, ParseNumber(text.items[i].hours)>> :
          i \in 1..Len(text.items) }

\* C16: after every user action the snapshot under the storage key is the
\* whole current ledger: it is an array with one element per record and holds
\* exactly the ledger's (date, hours) pairs; an action that wrote the ledger
\* is followed by a write of the whole list, a failed or ignored one leaves
\* the snapshot as it was, and a reload restores the same set of records.
C16_SnapshotIsLedger ==
    /\ [](/\ status = "running"
          /\ storage.kind = "array"
          /\ Len(storage.items) = Len(entries)
          /\ SnapshotRecords(storage) = RecordsOf(entries))
    /\ [][/\ (last'.op \in Handlers /\ ~last'.wrote) => storage' = storage
          /\ (last'.op \in Handlers /\ last'.wrote)
                => SnapshotRecords(storage') = RecordsOf(entries')
          /\ last'.op = "reload"
                => /\ RecordsOf(entries') = RecordsOf(entries)
                   /\ status' = "running"]_vars

\* a reload restored three records, one of them of 0.1 hours
C16_Witness ==
    /\ last.op = "reload"
    /\ Len(entries) = 3
    /\ \E i \in 1..Len(entries) : entries[i].hours = 10
    /\ SnapshotRecords(storage) = RecordsOf(entries)

----------------------------------------------------------------------------
(* C17 *)

\* the dates a handler is given, today, and every date that has a record
DatesInPlay == DateInputs \cup {Today} \cup LedgerDates(entries)

\* C17: after any sequence of setHours, addHours and deleteHours calls,
\* totalHours is the sum over the dates d of what is read for d: every date
\* is counted once, none is left out (a date without a record reads 0).
C17_TotalIsSumOfReads ==
    totalHours(entries) = SumCurrentOver(entries, DatesInPlay)

\* a partial delete left three records that add up to 24 + 12 + 0.1 hours
C17_Witness ==
    /\ last.op = "deleteEntry"
    /\ last.wrote
    /\ Len(entries) = 3
    /\ totalHours(entries) = (MaxHours + 12) * Scale + 10

----------------------------------------------------------------------------
(* C18 *)

\* C18: the selection is a three-step cycle over clicks on valid in-month
\* cells.  With nothing selected a click sets start; with start alone a click
\* sets end, stores the two dates with start <= end and reads the range total
\* once; with both set a click starts over with the clicked date as start.
\* Nothing else changes the selection, and in every state end is set only
\* if start is, with start <= end.
C18_SelectionCycle ==
    /\ [](dateRange.end # NoDate
            => /\ dateRange.start # NoDate
               /\ dateRange.start.val <= dateRange.end.val)
    /\ [][IF last'.op = "click" /\ Clickable(CellAt(last'.arg.val))
          THEN LET clicked == DateStr(last'.date)
               IN  /\ last'.errs = <<>>
                   /\ dateRange = NoRange
                        => /\ dateRange' = [start |-> clicked, end |-> NoDate]
                           /\ last'.reads = <<>>
                   /\ (dateRange.start # NoDate /\ dateRange.end = NoDate)
                        => /\ dateRange'.start # NoDate
                           /\ dateRange'.end # NoDate
                           /\ {dateRange'.start, dateRange'.end}
                                  = {dateRange.start, clicked}
                           /\ dateRange'.start.val <= dateRange'.end.val
                           /\ Len(last'.reads) = 1
                           /\ last'.reads[1]
                                  = LoggedBetween(entries, dateRange'.start.val,
                                                  dateRange'.end.val)
                   /\ dateRange.end # NoDate
                        => /\ dateRange' = [start |-> clicked, end |-> NoDate]
                           /\ last'.reads = <<>>
          ELSE dateRange' = dateRange]_vars

\* the second click, on a later date of another month, with nothing logged
\* between the two
C18_Witness ==
    /\ last.op = "click"
    /\ dateRange.end = DateStr(last.date)
    /\ dateRange.start.val + 31 < dateRange.end.val
    /\ last.reads = <<0>>
    /\ last.alert = AlertRangeNone
    /\ entries # <<>>

----------------------------------------------------------------------------
(* C19 *)

\* the array the handler of a step passed to setEntries (the entries it
\* read, when it passed none)
SetByHandler ==
    CASE last'.op = "handleSubmit"
            -> handleSubmit(entries, now, last'.date, last'.arg).entries
      [] last'.op = "quickAdd"
            -> quickAdd(entries, now, last'.arg.val).entries
      [] last'.op = "quickAddForDate"
            -> handleQuickHourSelect(entries, now, last'.date,
                                     last'.arg.val).entries
      [] last'.op = "deleteEntry"
            -> deleteEntry(entries, last'.date, last'.arg).entries

\* C19: the Recent Entries read is pure: it leaves the ledger as the handler
\* set it, so a date logged for the first time stays at the end of the
\* ledger, after the dates logged before it.  The render calls entries.sort
\* on the state array itself, which reorders the ledger by date, latest
\* first.
C19_ReadLeavesLedger ==
    [][last'.op \in Handlers => entries' = SetByHandler]_vars

----------------------------------------------------------------------------
(* C20 *)

\* C20: a record of 0 hours can exist.  An add of a negative amount that
\* brings a date to exactly 0 keeps the date's record, with 0 hours, and a
\* submit of 0 hours stores a record of 0 hours; no step but a deleteEntry
\* removes the record of a date.  So a date can have a record and read 0.
C20_ZeroHourRecordKept ==
    [][/\ (/\ last'.op \in Adders
           /\ last'.wrote
           /\ last'.arg.val < 0
           /\ getHoursForDate(entries', last'.date) = 0)
            => findIndex(entries', last'.date) # 0
       /\ (last'.op = "handleSubmit" /\ last'.wrote /\ last'.arg = Num(0))
            => /\ findIndex(entries', last'.date) # 0
               /\ getHoursForDate(entries', last'.date) = 0
       /\ ~(LedgerDates(entries) \subseteq LedgerDates(entries'))
            => last'.op = "deleteEntry"]_vars

\* 12 hours lowered by 12: the date still has its record and reads 0
C20_Witness ==
    /\ last.op \in Adders
    /\ last.arg.val < 0
    /\ last.cur > 0
    /\ last.cur + last.arg.val = 0
    /\ HasRecord(last.date)
    /\ getHoursForDate(entries, last.date) = 0

----------------------------------------------------------------------------
(* C21 *)

ExportOps == { "savePNG", "exportAndShare" }

\* the ways an export ends without a download
Failures == { "nothing", "rasterFailed", "downloadFailed" }

\* the export the step began is the latest of the suspended ones
BeganExport == exports' = Append(exports, last'.op)

\* C21: image export is not exclusive.  While an export is suspended in
\* toPng both export buttons and the ledger handlers stay enabled, and an
\* export begun then is suspended beside the first, so two exports are in
\* flight at once; no task of an export changes the ledger or its snapshot;
\* and an export that fails passes exactly one message to setError and is
\* suspended no longer.
C21_ExportsNotExclusive ==
    /\ [](status = "running" /\ exports # <<>> /\ Len(exports) < MaxExports
            => /\ ENABLED StartSavePNG
               /\ ENABLED StartExportAndShare
               /\ ENABLED HandleSubmit
               /\ ENABLED QuickAdd
               /\ ENABLED QuickAddForDate
               /\ ENABLED DeleteEntry)
    /\ [][/\ (last'.outcome = "suspended"
                /\ (last' # last \/ exports' # exports))
            => BeganExport
          /\ last'.op \in ExportOps
            => entries' = entries /\ storage' = storage
          /\ (last'.op \in ExportOps /\ last'.outcome \in Failures)
            => /\ Len(last'.errs) = 1
               /\ Len(exports') <= Len(exports)]_vars

\* a savePNG and an exportAndShare are in flight, and a handler has just
\* written the ledger under them
C21_Witness ==
    /\ status = "running"
    /\ Len(exports) = 2
    /\ exports[1] # exports[2]
    /\ last.op \in Handlers
    /\ last.wrote

====
